---- MODULE Spec2Model ----
(***************************************************************************)
(* A model of the Anthropic Suite orchestration core (core.py): the flag   *)
(* model (flags_from_str, flags_to_str, parse_model_flags), the primary    *)
(* provider caller (call_model), the comparison caller (call_ollama) and   *)
(* the round dispatcher (run_all).                                         *)
(*                                                                         *)
(* Python strings that the code inspects character by character (flag      *)
(* strings, raw prompts) are sequences of one-character strings.  Python   *)
(* dicts are sequences of <<key, value>> pairs with distinct keys, in      *)
(* insertion order.  Flag mappings, which the code only reads through      *)
(* .get(), are functions from a set of names to BOOLEAN.  Every Python     *)
(* value a variable may hold is a record, so that None, a result dict and  *)
(* an exception object can be told apart.                                  *)
(***************************************************************************)
EXTENDS Integers, Sequences, FiniteSets, TLC

VARIABLES
    config,          \* the configuration mapping shared by the round
    prompt,          \* the resolved prompt handed to run_all
    model_flags,     \* run_all's model_flags argument (None or a mapping)
    backend,         \* what each primary backend answers (deterministic)
    ollama_backend,  \* what the comparison backend answers
    pc,              \* run_all's position
    tasks,           \* names of the coroutines handed to gather, in order
    task_state,      \* per task: "created", "inflight" or "done"
    gathered,        \* per task: the value gather returns for it
    completed,       \* the order in which the tasks completed
    results,         \* run_all's results dict
    comparison,      \* run_all's comparison value
    launched,        \* names call_model was started with, in order
    ollama_calls,    \* what call_ollama was invoked with, in order
    ollama_posts,    \* the comparison prompts posted to the backend
    record,          \* the value run_all returned (None before)
    html,            \* what build_html made of the record (None before)
    flag_in,         \* the flag model's input under SpecFlags
    flag_out         \* the flag model's output under SpecFlags

VARIABLES
    host,       \* "suite" or "chat"
    hpc,        \* the host's position
    line,       \* suite: the joined command line; chat: the line last read
    disk,       \* the contents of config.json
    foreign,    \* config.json was edited by someone else
    round_num,  \* chat.py's round counter
    clock,      \* the time, in ticks
    platform,   \* sys.platform
    files,      \* the output directory: path -> the round that wrote it
    saves,      \* every call of save_and_open: its round, its paths, the
                \* write that failed in it ("none" when none did)
    opened,     \* the reports handed to open or xdg-open
    out,        \* the completion messages printed
    escaped     \* the exception that ended the host (None while it runs)

host_vars == <<host, hpc, line, disk, foreign, round_num, clock, platform,
               files, saves, opened, out, escaped>>

vars == <<config, prompt, model_flags, backend, ollama_backend, pc, tasks,
          task_state, gathered, completed, results, comparison, launched,
          ollama_calls, ollama_posts, record, html, flag_in, flag_out,
          host_vars>>

round_vars == <<config, prompt, model_flags, backend, ollama_backend, pc,
                tasks, task_state, gathered, completed, results, comparison,
                launched, ollama_calls, ollama_posts, record, html>>

\* the round's variables but the configuration
round_state == <<prompt, model_flags, backend, ollama_backend, pc, tasks,
                 task_state, gathered, completed, results, comparison,
                 launched, ollama_calls, ollama_posts, record, html>>

flag_vars == <<flag_in, flag_out>>

----------------------------------------------------------------------------
(* Bounds of the model.                                                    *)

\* longest string handed to flags_from_str
MaxFlagLen == 5

\* longest raw input handed to parse_model_flags
MaxRawLen == 7

----------------------------------------------------------------------------
(* Python values.                                                          *)

None == [none |-> TRUE]

IsNone(v) == "none" \in DOMAIN v

\* an exception object: its class and its str()
ExcObj(cls, msg) == [exc |-> cls, msg |-> msg]

IsExcObj(v) == "exc" \in DOMAIN v

\* isinstance(v, Exception): asyncio.CancelledError derives from
\* BaseException, not from Exception
IsInstanceException(v) == IsExcObj(v) /\ v.exc # "CancelledError"

\* str(e) of an exception object
Str(e) == e.msg

(* dicts as sequences of <<key, value>> pairs *)

Keys(d) == {d[i][1] : i \in 1..Len(d)}

KeyList(d) == [i \in 1..Len(d) |-> d[i][1]]

Has(d, k) == k \in Keys(d)

Get(d, k) == LET i == CHOOSE j \in 1..Len(d) : d[j][1] = k IN d[i][2]

\* d[k] = v: replaces in place, or appends a new key
Put(d, k, v) ==
    IF Has(d, k)
    THEN [i \in 1..Len(d) |-> IF d[i][1] = k THEN <<k, v>> ELSE d[i]]
    ELSE Append(d, <<k, v>>)

\* flags.get(name, dflt) on a flag mapping (None-safe use is the caller's)
FlagGet(flags, name, dflt) ==
    IF name \in DOMAIN flags THEN flags[name] ELSE dflt

Min(a, b) == IF a < b THEN a ELSE b

RECURSIVE SelectSeqOf(_, _)
\* [x for x in s if x in S]
SelectSeqOf(s, S) ==
    IF s = <<>> THEN <<>>
    ELSE IF Head(s) \in S THEN <<Head(s)>> \o SelectSeqOf(Tail(s), S)
         ELSE SelectSeqOf(Tail(s), S)

----------------------------------------------------------------------------
(* The flag model.                                                         *)

MODEL_ORDER == <<"opus", "sonnet", "haiku">>

FLAG_ORDER == <<"opus", "sonnet", "haiku", "ollama">>

\* flags_to_str with the primary order in place of the flag order
flags_to_str_model_order(flags) ==
    [i \in 1..Len(MODEL_ORDER) |->
        IF FlagGet(flags, MODEL_ORDER[i], TRUE) THEN "+" ELSE "-"]

flags_from_str(flags_str) ==
    LET n == Min(Len(FLAG_ORDER), Len(flags_str))
        zipped == {FLAG_ORDER[i] : i \in 1..n}
        pos(name) == CHOOSE i \in 1..n : FLAG_ORDER[i] = name
        dom == IF Len(flags_str) = 3 THEN zipped \cup {"ollama"} ELSE zipped
    IN  [name \in dom |->
            IF Len(flags_str) = 3 /\ name = "ollama" THEN TRUE
            ELSE flags_str[pos(name)] = "+"]

flags_to_str(flags) ==
    [i \in 1..Len(FLAG_ORDER) |->
        IF FlagGet(flags, FLAG_ORDER[i], TRUE) THEN "+" ELSE "-"]

(* the regular expression (?:^|\s)([+\-]{3,4})(?:\s|$) of parse_model_flags *)

IsSpace(c) == c = " "

IsFlagChar(c) == c \in {"+", "-"}

\* [+\-]{n} at position t of raw
FlagRun(raw, t, n) ==
    /\ t + n - 1 <= Len(raw)
    /\ \A j \in t..(t + n - 1) : IsFlagChar(raw[j])

\* the group and the closing (?:\s|$) tried with the group at t, the whole
\* match starting at start: greedy, 4 characters before 3, \s before $
TokenAt(raw, start, t) ==
    LET try(n) ==
            IF ~FlagRun(raw, t, n) THEN None
            ELSE IF t + n <= Len(raw) /\ IsSpace(raw[t + n])
                 THEN [start |-> start, tok |-> SubSeq(raw, t, t + n - 1),
                       end |-> t + n + 1]
            ELSE IF t + n = Len(raw) + 1
                 THEN [start |-> start, tok |-> SubSeq(raw, t, t + n - 1),
                       end |-> t + n]
            ELSE None
    IN  IF ~IsNone(try(4)) THEN try(4) ELSE try(3)

\* a match starting at position i: ^ before \s
MatchAt(raw, i) ==
    LET anchored == IF i = 1 THEN TokenAt(raw, i, i) ELSE None
        spaced == IF i <= Len(raw) /\ IsSpace(raw[i])
                  THEN TokenAt(raw, i, i + 1) ELSE None
    IN  IF ~IsNone(anchored) THEN anchored ELSE spaced

\* re.search: the match at the least starting position, or None;
\* start is the first matched position and end the first one after it
re_search(raw) ==
    LET hits == {i \in 1..(Len(raw) + 1) : ~IsNone(MatchAt(raw, i))}
    IN  IF hits = {} THEN None
        ELSE MatchAt(raw, CHOOSE i \in hits : \A j \in hits : i <= j)

RECURSIVE lstrip(_)
lstrip(s) == IF s # <<>> /\ IsSpace(Head(s)) THEN lstrip(Tail(s)) ELSE s

RECURSIVE rstrip(_)
rstrip(s) ==
    IF s # <<>> /\ IsSpace(s[Len(s)]) THEN rstrip(SubSeq(s, 1, Len(s) - 1))
    ELSE s

strip(s) == rstrip(lstrip(s))

\* returns the pair (prompt, flags); raised names the exception that
\* escaped instead, "none" when the call returned
parse_model_flags(raw, default_flags) ==
    LET match == re_search(raw)
    IN  IF ~IsNone(match)
        THEN [prompt |-> strip(SubSeq(raw, 1, match.start - 1)
                               \o SubSeq(raw, match.end, Len(raw))),
              flags |-> flags_from_str(match.tok),
              raised |-> "none"]
        ELSE [prompt |-> raw, flags |-> flags_from_str(default_flags),
              raised |-> "none"]

----------------------------------------------------------------------------
(* The flag model on its own: one call of one function on one input.       *)

\* all strings over alphabet of length at most n
StringsUpTo(alphabet, n) == UNION {[1..k -> alphabet] : k \in 0..n}

FlagNames == {FLAG_ORDER[i] : i \in 1..Len(FLAG_ORDER)}

\* every mapping from some of the flag names to booleans
FlagMappings == UNION {[D -> BOOLEAN] : D \in SUBSET FlagNames}

\* default flag strings as the configuration may hold them: a full one, a
\* shorthand, one that is too short
DefaultFlagStrings == {<<"+", "+", "+", "+">>, <<"-", "+", "-">>, <<"-">>}

FlagInputs ==
    {[op |-> "from_str", s |-> s] :
        s \in StringsUpTo({"+", "-", "a"}, MaxFlagLen)}
    \cup {[op |-> "to_str", flags |-> f] : f \in FlagMappings}
    \cup {[op |-> "parse", raw |-> r, default_flags |-> d] :
            r \in StringsUpTo({"+", "-", " ", "a"}, MaxRawLen),
            d \in DefaultFlagStrings}

\* no host is running
HostIdle ==
    /\ host = None /\ hpc = "idle" /\ line = None /\ disk = None
    /\ foreign = FALSE /\ round_num = 0 /\ clock = 0 /\ platform = None
    /\ files = <<>> /\ saves = <<>> /\ opened = <<>> /\ out = <<>>
    /\ escaped = None

\* no round is running
RoundIdle ==
    /\ config = None /\ prompt = None /\ model_flags = None
    /\ backend = None /\ ollama_backend = None /\ pc = "idle"
    /\ tasks = <<>> /\ task_state = None /\ gathered = None
    /\ completed = <<>> /\ results = <<>> /\ comparison = None
    /\ launched = <<>> /\ ollama_calls = <<>> /\ ollama_posts = <<>>
    /\ record = None /\ html = None

FlagInit ==
    /\ flag_in \in FlagInputs
    /\ flag_out = None
    /\ RoundIdle
    /\ HostIdle

\* flags_to_str(flags_from_str(s))
FlagsFromStr ==
    /\ flag_out = None
    /\ flag_in.op = "from_str"
    /\ flag_out' = [flags |-> flags_from_str(flag_in.s),
                    str |-> flags_to_str(flags_from_str(flag_in.s)),
                    raised |-> "none"]
    /\ UNCHANGED <<flag_in, round_vars, host_vars>>

\* flags_to_str(flags)
FlagsToStr ==
    /\ flag_out = None
    /\ flag_in.op = "to_str"
    /\ flag_out' = [str |-> flags_to_str(flag_in.flags), raised |-> "none"]
    /\ UNCHANGED <<flag_in, round_vars, host_vars>>

\* parse_model_flags(raw, default_flags)
ParseModelFlags ==
    /\ flag_out = None
    /\ flag_in.op = "parse"
    /\ flag_out' = parse_model_flags(flag_in.raw, flag_in.default_flags)
    /\ UNCHANGED <<flag_in, round_vars, host_vars>>

FlagNext == FlagsFromStr \/ FlagsToStr \/ ParseModelFlags

SpecFlags == FlagInit /\ [][FlagNext]_vars

----------------------------------------------------------------------------
(* Properties of the flag model.                                           *)

IsFlagString(s) ==
    /\ Len(s) \in {3, 4}
    /\ \A i \in 1..Len(s) : IsFlagChar(s[i])

RECURSIVE Words(_)
\* the maximal runs of non-blank characters of s, in order
Words(s) ==
    LET t == lstrip(s)
    IN  IF t = <<>> THEN <<>>
        ELSE LET k == CHOOSE i \in 1..Len(t) :
                        /\ \A j \in 1..i : ~IsSpace(t[j])
                        /\ (i = Len(t) \/ IsSpace(t[i + 1]))
             IN  <<SubSeq(t, 1, k)>> \o Words(SubSeq(t, k + 1, Len(t)))

HasFlagToken(raw) == \E i \in 1..Len(Words(raw)) : IsFlagString(Words(raw)[i])

\* the position, among the words of raw, of the first flag token
FirstFlagToken(raw) ==
    CHOOSE i \in 1..Len(Words(raw)) :
        /\ IsFlagString(Words(raw)[i])
        /\ \A j \in 1..(i - 1) : ~IsFlagString(Words(raw)[j])

RemoveAt(s, i) == SubSeq(s, 1, i - 1) \o SubSeq(s, i + 1, Len(s))

\* C6: for every string s of 3 or 4 '+'/'-' characters,
\* flags_to_str(flags_from_str(s)) is s when s has 4 characters and s
\* followed by '+' when it has 3, position i standing for FLAG_ORDER[i];
\* and flags_to_str returns exactly 4 '+'/'-' characters for any mapping.
C6_FlagRoundTrip ==
    /\ (flag_in.op = "from_str" /\ ~IsNone(flag_out) /\ IsFlagString(flag_in.s))
        => /\ flag_out.raised = "none"
           /\ Len(flag_out.str) = 4
           /\ flag_out.str = IF Len(flag_in.s) = 4 THEN flag_in.s
                             ELSE flag_in.s \o <<"+">>
           /\ \A i \in 1..4 :
                (flag_out.str[i] = "+") = flag_out.flags[FLAG_ORDER[i]]
    /\ (flag_in.op = "to_str" /\ ~IsNone(flag_out))
        => /\ flag_out.raised = "none"
           /\ Len(flag_out.str) = 4
           /\ \A i \in 1..4 : IsFlagChar(flag_out.str[i])

\* the shorthand "++-" came back as "++-+"
C6_Witness ==
    /\ flag_in.op = "from_str"
    /\ flag_in.s = <<"+", "+", "-">>
    /\ ~IsNone(flag_out)
    /\ flag_out.str = <<"+", "+", "-", "+">>

\* C7: for every malformed flag string (length outside {3,4}, or a
\* character other than '+' or '-'), parsing fails with InvalidFlagFormat
\* and yields no flags, both for a string passed to flags_from_str and for
\* the default of a parse_model_flags call whose input holds no token.
C7_MalformedRejected ==
    /\ (flag_in.op = "from_str" /\ ~IsNone(flag_out) /\ ~IsFlagString(flag_in.s))
        => flag_out.raised = "InvalidFlagFormat"
    /\ (flag_in.op = "parse" /\ ~IsNone(flag_out)
            /\ ~HasFlagToken(flag_in.raw)
            /\ ~IsFlagString(flag_in.default_flags))
        => flag_out.raised = "InvalidFlagFormat"

\* C8: parse_model_flags returns, when the input holds a flag token, the
\* input without that token, its other words still apart and in order, and
\* the flags of the token; otherwise the input unchanged and the flags of
\* the default string.
C8_ParseModelFlags ==
    (flag_in.op = "parse" /\ ~IsNone(flag_out))
        => IF HasFlagToken(flag_in.raw)
           THEN /\ flag_out.flags =
                    flags_from_str(Words(flag_in.raw)[FirstFlagToken(flag_in.raw)])
                /\ Words(flag_out.prompt) =
                    RemoveAt(Words(flag_in.raw), FirstFlagToken(flag_in.raw))
           ELSE /\ flag_out.prompt = flag_in.raw
                /\ flag_out.flags = flags_from_str(flag_in.default_flags)

\* the same with the words on either side of the token left out of it:
\* what parse_model_flags does hold of every input
C8_TokenAndFlags ==
    (flag_in.op = "parse" /\ ~IsNone(flag_out))
        => IF HasFlagToken(flag_in.raw)
           THEN flag_out.flags =
                    flags_from_str(Words(flag_in.raw)[FirstFlagToken(flag_in.raw)])
           ELSE /\ flag_out.prompt = flag_in.raw
                /\ flag_out.flags = flags_from_str(flag_in.default_flags)

----------------------------------------------------------------------------
(* The round: call_model, call_ollama and run_all.                         *)

ModelNames == {MODEL_ORDER[i] : i \in 1..Len(MODEL_ORDER)}

\* the endpoint identifier the configuration gives a provider
ModelId == [opus |-> "opus-id", sonnet |-> "sonnet-id", haiku |-> "haiku-id"]

\* name.upper() and name.capitalize()
Upper == [opus |-> "OPUS", sonnet |-> "SONNET", haiku |-> "HAIKU"]

Capitalize == [opus |-> "Opus", sonnet |-> "Sonnet", haiku |-> "Haiku"]

\* what a deterministic backend answers to the prompt, per provider
ResponseText(name) == "response of " \o name

FaultText(name) == "fault of " \o name

\* the dict call_model returns (lines 130-139)
Success(name, model_id) ==
    [model |-> model_id, model_id_requested |-> model_id,
     response_text |-> ResponseText(name)]

\* what awaiting call_model(client, config, model_id, name, prompt) ends in:
\* the returned dict, or the exception that escapes it (call_model catches
\* nothing), of the class the backend's fault has
call_model(name, model_id) ==
    IF backend[name] = "ok" THEN Success(name, model_id)
    ELSE ExcObj(backend[name], FaultText(name))

\* bool(v) of config.get("ollama"): None and the empty dict are false
Truthy(cfg) == ~IsNone(cfg) /\ cfg.keys # {}

\* model_flags after lines 207-208
EffectiveFlags ==
    IF IsNone(model_flags) THEN [name \in Keys(config.models) |-> TRUE]
    ELSE model_flags

\* the caller's mapping with the default written into it for every
\* configured model it does not name
CallerFlags_defaults_written ==
    IF IsNone(model_flags) THEN model_flags
    ELSE [name \in DOMAIN model_flags \cup Keys(config.models) |->
            FlagGet(model_flags, name, TRUE)]

\* the caller's model_flags object once run_all has taken its defaults:
\* line 208 rebinds the local name and line 213 only reads
CallerFlags == model_flags

\* active_models of line 257
ActiveModels(flags) ==
    SelectSeq(MODEL_ORDER, LAMBDA n : FlagGet(flags, n, FALSE))

\* the card of lines 262-290 for one active model: r is the model's entry,
\* an empty dict when it has none; "error" in r raises on an exception
\* object, r["model"] on a dict without the key
Card(data, name) ==
    LET r == IF Has(data.results, name) THEN Get(data.results, name) ELSE <<>>
    IN  IF IsExcObj(r)
        THEN ExcObj("TypeError",
                    "argument of type '" \o r.exc \o "' is not iterable")
        ELSE IF "error" \in DOMAIN r
        THEN [name |-> Upper[name], kind |-> "error", body |-> r.error]
        ELSE IF "model" \notin DOMAIN r
        THEN ExcObj("KeyError", "'model'")
        ELSE [name |-> Upper[name], kind |-> "success", meta |-> r.model,
              body |-> r.response_text]

\* the comparison block of lines 293-312: none for None, an error block or
\* the comparison text
ComparisonHtml(comp) ==
    IF IsNone(comp) \/ DOMAIN comp = {} THEN None
    ELSE IF "error" \in DOMAIN comp THEN [kind |-> "error", body |-> comp.error]
    ELSE [kind |-> "success", meta |-> comp.model, body |-> comp.response_text]

\* build_html(data): the page, as its prompt, its cards in order and its
\* comparison block, or the exception the first faulting card raised
build_html(data) ==
    LET active_models == ActiveModels(data.model_flags)
        cards == [i \in 1..Len(active_models) |-> Card(data, active_models[i])]
        faulty == {i \in 1..Len(cards) : IsExcObj(cards[i])}
    IN  IF faulty # {}
        THEN [raised |-> cards[CHOOSE i \in faulty : \A j \in faulty : i <= j]]
        ELSE [raised |-> None, prompt |-> data.prompt, cards |-> cards,
              comparison |-> ComparisonHtml(data.comparison)]

\* the tasks dict with every configured model in it, whatever its flag
TaskNames_all == KeyList(config.models)

\* the keys of the tasks dict (lines 210-214), in the order of the models
TaskNames ==
    LET names == KeyList(config.models)
        keep == {n \in Keys(config.models) : FlagGet(EffectiveFlags, n, TRUE)}
    IN  SelectSeqOf(names, keep)

\* gather resolving only when no awaitable faulted, the fault escaping
\* run_all otherwise (return_exceptions left out)
GatherReady_no_fault ==
    \A i \in 1..Len(tasks) :
        task_state[tasks[i]] = "done" /\ ~IsExcObj(gathered[tasks[i]])

\* gather resolving as soon as one awaitable is done
GatherReady_first_completed ==
    tasks = <<>> \/ \E i \in 1..Len(tasks) : task_state[tasks[i]] = "done"

\* gather resolves when every awaitable is done
GatherReady == \A i \in 1..Len(tasks) : task_state[tasks[i]] = "done"

\* the values in the order the tasks completed in
GatheredList_completion_order ==
    [i \in 1..Len(completed) |-> gathered[completed[i]]]

\* the list gather returns: one value per awaitable, in the order given
GatheredList == [i \in 1..Len(tasks) |-> gathered[tasks[i]]]

RECURSIVE CollectResults(_, _, _)
\* the loop of lines 218-223 over zip(names, values), from results acc
CollectResults(names, values, acc) ==
    IF names = <<>> \/ values = <<>> THEN acc
    ELSE LET name == Head(names)
             result == Head(values)
             entry == IF IsInstanceException(result)
                      THEN [error |-> Str(result),
                            model_id_requested |-> Get(config.models, name)]
                      ELSE result
         IN  CollectResults(Tail(names), Tail(values), Put(acc, name, entry))

\* the guard of line 226 asking for a result to compare as well
ComparisonEnabled_needs_results ==
    /\ Truthy(config.ollama) /\ FlagGet(EffectiveFlags, "ollama", TRUE)
    /\ results # <<>>

\* the guard of line 226 with the configuration left out of it
ComparisonEnabled_flag_only == FlagGet(EffectiveFlags, "ollama", TRUE)

\* the guard of line 226
ComparisonEnabled ==
    Truthy(config.ollama) /\ FlagGet(EffectiveFlags, "ollama", TRUE)

\* the handler of lines 229-230 dropping the fault
ComparisonFailure_swallowed(e) == None

\* the handler of lines 229-230
ComparisonFailure(e) == [error |-> Str(e)]

\* the contributing providers in the order the results were inserted in
Active_insertion_order(responses) == KeyList(responses)

\* active of line 147
Active(responses) == SelectSeqOf(MODEL_ORDER, Keys(responses))

\* the closing instruction with the summary chosen for fewer than two
ClosingInstruction_below_two(n) ==
    IF n <= 1 THEN "summarize and critique" ELSE "compare and contrast"

\* the closing instruction of lines 161-171, by len(active)
ClosingInstruction(n) ==
    IF n = 1 THEN "summarize and critique" ELSE "compare and contrast"

\* the comparison prompt of lines 148-171: the preamble's count and names,
\* the prompt, one section per active provider, the closing instruction
ComparisonPrompt(p, responses) ==
    LET active == Active(responses)
    IN  [count |-> Len(active),
         names |-> [i \in 1..Len(active) |-> Capitalize[active[i]]],
         prompt |-> p,
         sections |->
            [i \in 1..Len(active) |->
                LET r == Get(responses, active[i])
                IN  [label |-> Upper[active[i]],
                     body |-> IF "error" \in DOMAIN r
                              THEN "[ERROR: " \o r.error \o "]"
                              ELSE r.response_text]],
         closing |-> ClosingInstruction(Len(active))]

\* the exception call_ollama raises before it posts anything, None if none:
\* a missing configuration key (lines 143-145), or a response that is no
\* dict ("error" in r, line 156, on an exception object)
OllamaEarlyFault(responses) ==
    IF IsNone(config.ollama) THEN ExcObj("KeyError", "'ollama'")
    ELSE IF "base_url" \notin config.ollama.keys
    THEN ExcObj("KeyError", "'base_url'")
    ELSE IF "model" \notin config.ollama.keys
    THEN ExcObj("KeyError", "'model'")
    ELSE IF \E i \in 1..Len(Active(responses)) :
                IsExcObj(Get(responses, Active(responses)[i]))
    THEN ExcObj("TypeError", "argument of type 'CancelledError' is not iterable")
    ELSE None

\* what the post of lines 185-188 ends in: the returned dict or the fault
OllamaOutcome ==
    CASE ollama_backend = "ok" ->
            [model |-> "ollama-model", response_text |-> "comparison text"]
      [] ollama_backend = "unreachable" ->
            ExcObj("ConnectError", "All connection attempts failed")
      [] ollama_backend = "bad_status" ->
            ExcObj("HTTPStatusError", "Server error '500 Internal Server Error'")

(* the inputs of a round *)

RECURSIVE NoRepeatSeqs(_)
\* the sequences without repetition over S
NoRepeatSeqs(S) ==
    {<<>>} \cup UNION {{<<x>> \o s : s \in NoRepeatSeqs(S \ {x})} : x \in S}

\* configured models: some of the providers, in any order
ModelDicts ==
    {[i \in 1..Len(s) |-> <<s[i], ModelId[s[i]]>>] : s \in NoRepeatSeqs(ModelNames)}

\* the "ollama" entry: absent, or a dict with some of the keys base_url, model
OllamaConfigs == {None} \cup {[keys |-> K] : K \in SUBSET {"base_url", "model"}}

Configs == {[models |-> m, ollama |-> o] : m \in ModelDicts, o \in OllamaConfigs}

\* the flag mappings the callers pass: whatever flags_from_str returns for
\* an inline token or for the default string of the configuration
RunFlagMappings ==
    {flags_from_str(s) : s \in StringsUpTo({"+", "-"}, Len(FLAG_ORDER))}

FlagIdle == flag_in = None /\ flag_out = None

Init ==
    /\ config \in Configs
    /\ prompt = "the prompt"
    /\ model_flags \in {None} \cup RunFlagMappings
    /\ backend \in [Keys(config.models) -> {"ok", "Exception", "CancelledError"}]
    /\ ollama_backend \in
        IF ~IsNone(config.ollama) /\ config.ollama.keys = {"base_url", "model"}
        THEN {"ok", "unreachable", "bad_status"} ELSE {"ok"}
    /\ pc = "start"
    /\ tasks = <<>>
    /\ task_state = <<>>
    /\ gathered = <<>>
    /\ completed = <<>>
    /\ results = <<>>
    /\ comparison = None
    /\ launched = <<>>
    /\ ollama_calls = <<>>
    /\ ollama_posts = <<>>
    /\ record = None /\ html = None
    /\ FlagIdle
    /\ HostIdle

\* lines 205-214: the coroutines of the enabled models are created
RunAllStart ==
    /\ pc = "start"
    /\ tasks' = TaskNames
    /\ task_state' = [n \in {TaskNames[i] : i \in 1..Len(TaskNames)} |-> "created"]
    /\ gathered' = [n \in {TaskNames[i] : i \in 1..Len(TaskNames)} |-> None]
    /\ model_flags' = CallerFlags
    /\ pc' = "gather"
    /\ UNCHANGED <<config, prompt, backend, ollama_backend,
                   completed, results, comparison, launched, ollama_calls,
                   ollama_posts, record, html,
                   flag_vars, host_vars>>

\* a task started only once the tasks before it are done, as a loop
\* awaiting each call in turn would start them
MayStart_sequential(name) ==
    /\ task_state[name] = "created"
    /\ \A i \in 1..Len(tasks) :
          task_state[tasks[i]] # "done"
            => \A j \in 1..Len(tasks) : tasks[j] = name => j <= i

\* the event loop starts the tasks gather scheduled in the order it was
\* given them (line 217): a created task may start when none before it is
\* still waiting to start, whatever the state of the requests in flight
MayStart(name) ==
    /\ task_state[name] = "created"
    /\ \A i \in 1..Len(tasks) :
          task_state[tasks[i]] = "created"
            => \A j \in 1..Len(tasks) : tasks[j] = name => j <= i

\* call_model lines 99-123: a task runs up to its request
CallModelSend(name) ==
    /\ pc = "gather"
    /\ MayStart(name)
    /\ task_state' = [task_state EXCEPT ![name] = "inflight"]
    /\ launched' = Append(launched, name)
    /\ UNCHANGED <<config, prompt, model_flags, backend, ollama_backend, pc,
                   tasks, gathered, completed, results, comparison,
                   ollama_calls, ollama_posts, record, html,
                   flag_vars, host_vars>>

\* call_model lines 123-139: the request of one task ends, in any order
CallModelDone(name) ==
    /\ pc = "gather"
    /\ task_state[name] = "inflight"
    /\ task_state' = [task_state EXCEPT ![name] = "done"]
    /\ gathered' = [gathered EXCEPT
                        ![name] = call_model(name, Get(config.models, name))]
    /\ completed' = Append(completed, name)
    /\ UNCHANGED <<config, prompt, model_flags, backend, ollama_backend, pc,
                   tasks, results, comparison, launched, ollama_calls,
                   ollama_posts, record, html,
                   flag_vars, host_vars>>

\* lines 216-225: gather returns and the results dict is filled
GatherCollect ==
    /\ pc = "gather"
    /\ GatherReady
    /\ results' = CollectResults(tasks, GatheredList, <<>>)
    /\ comparison' = None
    /\ pc' = "compare"
    /\ UNCHANGED <<config, prompt, model_flags, backend, ollama_backend,
                   tasks, task_state, gathered, completed, launched,
                   ollama_calls, ollama_posts, record, html,
                   flag_vars, host_vars>>

\* line 226, condition false: no comparison
CompareSkip ==
    /\ pc = "compare"
    /\ ~ComparisonEnabled
    /\ pc' = "assemble"
    /\ UNCHANGED <<config, prompt, model_flags, backend, ollama_backend,
                   tasks, task_state, gathered, completed, results,
                   comparison, launched, ollama_calls, ollama_posts, record,
                   html,
                   flag_vars, host_vars>>

\* lines 226-231 and 143-159: call_ollama is called and raises before it
\* posts; run_all's handler stores the fault
CallOllamaFault ==
    /\ pc = "compare"
    /\ ComparisonEnabled
    /\ ~IsNone(OllamaEarlyFault(results))
    /\ ollama_calls' = Append(ollama_calls, [prompt |-> prompt, responses |-> results])
    /\ comparison' = ComparisonFailure(OllamaEarlyFault(results))
    /\ pc' = "assemble"
    /\ UNCHANGED <<config, prompt, model_flags, backend, ollama_backend,
                   tasks, task_state, gathered, completed, results, launched,
                   ollama_posts, record, html,
                   flag_vars, host_vars>>

\* lines 226-228 and 143-186: call_ollama is called, builds the comparison
\* prompt and posts it
CallOllamaPost ==
    /\ pc = "compare"
    /\ ComparisonEnabled
    /\ IsNone(OllamaEarlyFault(results))
    /\ ollama_calls' = Append(ollama_calls, [prompt |-> prompt, responses |-> results])
    /\ ollama_posts' = Append(ollama_posts, ComparisonPrompt(prompt, results))
    /\ pc' = "comparing"
    /\ UNCHANGED <<config, prompt, model_flags, backend, ollama_backend,
                   tasks, task_state, gathered, completed, results,
                   comparison, launched, record, html,
                   flag_vars, host_vars>>

\* lines 186-199 and 228-231: the post ends; a fault is stored by the handler
CallOllamaDone ==
    /\ pc = "comparing"
    /\ comparison' = IF IsExcObj(OllamaOutcome)
                     THEN ComparisonFailure(OllamaOutcome)
                     ELSE OllamaOutcome
    /\ pc' = "assemble"
    /\ UNCHANGED <<config, prompt, model_flags, backend, ollama_backend,
                   tasks, task_state, gathered, completed, results, launched,
                   ollama_calls, ollama_posts, record, html,
                   flag_vars, host_vars>>

\* lines 233-243: the record is returned
RunAllReturn ==
    /\ pc = "assemble"
    /\ record' = [prompt |-> prompt, model_flags |-> EffectiveFlags,
                  results |-> results, comparison |-> comparison]
    /\ pc' = "returned"
    /\ UNCHANGED <<config, prompt, model_flags, backend, ollama_backend,
                   tasks, task_state, gathered, completed, results,
                   comparison, launched, ollama_calls, ollama_posts,
                   html,
                   flag_vars, host_vars>>

\* the caller renders the returned record: build_html(data), lines 254-367
BuildHtml ==
    /\ pc = "returned"
    /\ html' = build_html(record)
    /\ pc' = "rendered"
    /\ UNCHANGED <<config, prompt, model_flags, backend, ollama_backend,
                   tasks, task_state, gathered, completed, results,
                   comparison, launched, ollama_calls, ollama_posts, record,
                   flag_vars, host_vars>>

Next ==
    \/ RunAllStart
    \/ \E i \in 1..Len(tasks) : CallModelSend(tasks[i])
    \/ \E i \in 1..Len(tasks) : CallModelDone(tasks[i])
    \/ GatherCollect
    \/ CompareSkip
    \/ CallOllamaFault
    \/ CallOllamaPost
    \/ CallOllamaDone
    \/ RunAllReturn
    \/ BuildHtml

Spec == Init /\ [][Next]_vars

\* the round when every step that can be taken is taken in the end: the
\* event loop runs every ready task, and every request sent to a backend
\* returns or faults
SpecLive == Spec /\ WF_vars(Next)

----------------------------------------------------------------------------
(* Properties of the round.                                                *)

\* the configured primary providers the caller's flags enable: a provider
\* is enabled unless the flags name it and say no
EnabledPrimaries ==
    {n \in Keys(config.models) :
        IsNone(model_flags) \/ n \notin DOMAIN model_flags \/ model_flags[n]}

\* the comparison provider is enabled by the flags and configured
ComparisonOn ==
    /\ ~IsNone(config.ollama) /\ config.ollama.keys # {}
    /\ (IsNone(model_flags) \/ "ollama" \notin DOMAIN model_flags
            \/ model_flags["ollama"])

\* the comparison provider is disabled by the flags, or not configured
ComparisonOff ==
    \/ IsNone(config.ollama)
    \/ (~IsNone(model_flags) /\ "ollama" \in DOMAIN model_flags
            /\ ~model_flags["ollama"])

IsSuccess(r) == "response_text" \in DOMAIN r /\ "error" \notin DOMAIN r

IsFailure(r) == "error" \in DOMAIN r

CanonicalPos(name) == CHOOSE i \in 1..Len(MODEL_ORDER) : MODEL_ORDER[i] = name

\* the names of S in canonical order
CanonicalSeq(S) ==
    CHOOSE s \in NoRepeatSeqs(S) :
        /\ Len(s) = Cardinality(S)
        /\ \A i, j \in 1..Len(s) :
                i < j => CanonicalPos(s[i]) < CanonicalPos(s[j])

\* C1: the returned record's results map has an entry for each enabled
\* primary provider and none for a disabled one, and no primary invocation
\* is created or started for a disabled provider.
C1_ResultsMatchEnabled ==
    /\ \A i \in 1..Len(tasks) : tasks[i] \in EnabledPrimaries
    /\ \A i \in 1..Len(launched) : launched[i] \in EnabledPrimaries
    /\ pc = "returned" => Keys(record.results) = EnabledPrimaries

\* a round returned with one provider disabled, one enabled, and a fault
C1_Witness ==
    /\ pc = "returned"
    /\ Keys(config.models) \ EnabledPrimaries # {}
    /\ EnabledPrimaries # {}
    /\ \E n \in EnabledPrimaries : backend[n] = "Exception"
    /\ Keys(record.results) = EnabledPrimaries

\* C2: in the returned record every enabled primary provider has exactly
\* one entry: a Failure carrying the fault text when its call faulted,
\* whatever the fault, and a Success otherwise.
C2_SuccessOrFailure ==
    pc = "returned" =>
        /\ Len(record.results) = Cardinality(EnabledPrimaries)
        /\ \A n \in EnabledPrimaries :
            /\ Has(record.results, n)
            /\ LET r == Get(record.results, n)
               IN  IF backend[n] = "ok"
                   THEN IsSuccess(r) /\ r.response_text = ResponseText(n)
                   ELSE IsFailure(r) /\ r.error = FaultText(n)

\* C3: call_ollama is called only when every created invocation has been
\* started and has completed, and the responses it receives are the whole
\* results map, one entry per enabled primary provider.
C3_Barrier ==
    \A k \in 1..Len(ollama_calls) :
        /\ Len(launched) = Len(tasks)
        /\ \A i \in 1..Len(tasks) : task_state[tasks[i]] = "done"
        /\ Len(completed) = Len(tasks)
        /\ ollama_calls[k].responses = results
        /\ Keys(ollama_calls[k].responses) = EnabledPrimaries
        /\ Len(ollama_calls[k].responses) = Cardinality(EnabledPrimaries)

\* the comparison was posted after three invocations completed out of order
C3_Witness ==
    /\ Len(ollama_posts) = 1
    /\ Len(tasks) = 3
    /\ Len(completed) = 3
    /\ completed # tasks

\* C4: with the comparison provider disabled in the flags or absent from
\* the configuration, call_ollama is never called and the comparison is
\* None, in run_all and in the record.
C4_NoComparisonWhenOff ==
    ComparisonOff =>
        /\ ollama_calls = <<>>
        /\ ollama_posts = <<>>
        /\ IsNone(comparison)
        /\ pc = "returned" => IsNone(record.comparison)

\* a round returned without comparison, the flags disabling a configured
\* comparison provider, with a Success and a Failure among the results
C4_Witness ==
    /\ pc = "returned"
    /\ ~IsNone(config.ollama) /\ config.ollama.keys = {"base_url", "model"}
    /\ ~IsNone(model_flags) /\ "ollama" \in DOMAIN model_flags
    /\ ~model_flags["ollama"]
    /\ IsNone(record.comparison)
    /\ \E n \in Keys(record.results) : IsFailure(Get(record.results, n))
    /\ \E n \in Keys(record.results) : IsSuccess(Get(record.results, n))

\* the text of the comparison call's fault: a missing configuration key,
\* an unreachable endpoint, a non-success status
ComparisonFaultText ==
    IF "base_url" \notin config.ollama.keys THEN "'base_url'"
    ELSE IF "model" \notin config.ollama.keys THEN "'model'"
    ELSE IF ollama_backend = "unreachable" THEN "All connection attempts failed"
    ELSE "Server error '500 Internal Server Error'"

\* the comparison call faults for one of these reasons
ComparisonFaults ==
    \/ config.ollama.keys # {"base_url", "model"}
    \/ (ollama_posts # <<>> /\ ollama_backend # "ok")

\* C5: when the comparison provider is enabled and configured and its call
\* faults, run_all still returns, the record's comparison is a Failure
\* with the fault text (not None), and the results are those the call got.
C5_ComparisonFailureRecorded ==
    (pc = "returned" /\ ComparisonOn) =>
        /\ Len(ollama_calls) = 1
        /\ record.results = ollama_calls[1].responses
        /\ ~IsNone(record.comparison)
        /\ ComparisonFaults =>
            /\ IsFailure(record.comparison)
            /\ record.comparison.error = ComparisonFaultText

\* a round returned with two primary results and an unreachable comparison
C5_Witness ==
    /\ pc = "returned"
    /\ ComparisonOn
    /\ Len(ollama_posts) = 1
    /\ ollama_backend = "unreachable"
    /\ IsFailure(record.comparison)
    /\ Len(record.results) >= 2

\* the section of a provider's entry
SectionOf(name, r) ==
    [label |-> Upper[name],
     body |-> IF IsFailure(r) THEN "[ERROR: " \o r.error \o "]"
              ELSE r.response_text]

\* every posted comparison prompt has one section per provider of the
\* results it was built from, in canonical order, whatever order the
\* results were inserted in
C9_SectionsCanonical ==
    \A k \in 1..Len(ollama_posts) :
        LET resp == ollama_calls[k].responses
            order == CanonicalSeq(Keys(resp))
        IN  /\ ollama_posts[k].count = Cardinality(Keys(resp))
            /\ ollama_posts[k].sections =
                [i \in 1..Len(order) |-> SectionOf(order[i], Get(resp, order[i]))]

\* C9: the comparison prompt has one labeled section per primary provider
\* of the results map, in canonical order, holding the response text or
\* [ERROR: <description>]; when every enabled provider's call faults and
\* the comparison is on, call_ollama is still called and, fully
\* configured, posts a prompt with one [ERROR: ...] section per provider;
\* with the flags "+-++" the sections are the first and the third.
C9_ComparisonPrompt ==
    /\ C9_SectionsCanonical
    /\ (pc \in {"comparing", "assemble", "returned"} /\ ComparisonOn
            /\ \A n \in EnabledPrimaries : backend[n] # "ok")
        => /\ Len(ollama_calls) = 1
           /\ config.ollama.keys = {"base_url", "model"} =>
                /\ Len(ollama_posts) = 1
                /\ ollama_posts[1].sections =
                    LET order == CanonicalSeq(EnabledPrimaries)
                    IN  [i \in 1..Len(order) |->
                            [label |-> Upper[order[i]],
                             body |-> "[ERROR: " \o FaultText(order[i]) \o "]"]]
    /\ (ollama_posts # <<>> /\ Keys(config.models) = ModelNames
            /\ model_flags = flags_from_str(<<"+", "-", "+", "+">>))
        => [i \in 1..Len(ollama_posts[1].sections) |->
                ollama_posts[1].sections[i].label] = <<"OPUS", "HAIKU">>

\* the record the inputs determine: an entry per enabled provider, made of
\* what that provider's backend answers
EntryFor(name) ==
    IF backend[name] = "ok"
    THEN [model |-> ModelId[name], model_id_requested |-> ModelId[name],
          response_text |-> ResponseText(name)]
    ELSE IF backend[name] = "Exception"
    THEN [error |-> FaultText(name), model_id_requested |-> ModelId[name]]
    ELSE ExcObj(backend[name], FaultText(name))

\* C10: the returned record's results, its comparison and the comparison
\* prompt posted depend on the inputs alone, not on the order in which the
\* invocations completed: each entry is what its own provider's backend
\* answered.
C10_OrderIndependent ==
    pc = "returned" =>
        /\ Keys(record.results) = EnabledPrimaries
        /\ Len(record.results) = Cardinality(EnabledPrimaries)
        /\ \A n \in EnabledPrimaries : Get(record.results, n) = EntryFor(n)
        /\ \A k \in 1..Len(ollama_posts) :
            \A i \in 1..Len(ollama_posts[k].sections) :
                \E n \in EnabledPrimaries :
                    ollama_posts[k].sections[i] = SectionOf(n, EntryFor(n))
        /\ record.comparison =
            IF ~ComparisonOn THEN None
            ELSE IF config.ollama.keys # {"base_url", "model"}
            THEN [error |-> ComparisonFaultText]
            ELSE IF \E n \in EnabledPrimaries : backend[n] = "CancelledError"
            THEN [error |-> "argument of type 'CancelledError' is not iterable"]
            ELSE IF ollama_backend # "ok"
            THEN [error |-> ComparisonFaultText]
            ELSE [model |-> "ollama-model", response_text |-> "comparison text"]

\* a round returned whose three invocations, with different outcomes,
\* completed in the reverse of the order they were started in
C10_Witness ==
    /\ pc = "returned"
    /\ Len(tasks) = 3
    /\ completed = <<tasks[3], tasks[2], tasks[1]>>
    /\ backend[tasks[1]] = "ok"
    /\ backend[tasks[2]] = "Exception"
    /\ backend[tasks[3]] = "ok"
    /\ Len(ollama_posts) = 1

\* what awaiting a provider's call ends in, by that provider's backend alone
OwnOutcome(name, v) ==
    IF backend[name] = "ok" THEN IsSuccess(v) /\ v.response_text = ResponseText(name)
    ELSE IsExcObj(v) /\ v.exc = backend[name] /\ v.msg = FaultText(name)

\* C11: the enabled invocations run concurrently: while tasks wait to
\* start one of them can start without any request in flight having to
\* complete, a request in flight can complete whatever the state of the
\* others, and a task that is done ended in the outcome of its own backend,
\* never in a cancellation or fault of a sibling.
C11_Concurrent ==
    pc = "gather" =>
        /\ (\E i \in 1..Len(tasks) : task_state[tasks[i]] = "created")
            => \E i \in 1..Len(tasks) : ENABLED CallModelSend(tasks[i])
        /\ \A i \in 1..Len(tasks) :
            task_state[tasks[i]] = "inflight" => ENABLED CallModelDone(tasks[i])
        /\ \A i \in 1..Len(tasks) :
            task_state[tasks[i]] = "done"
                => OwnOutcome(tasks[i], gathered[tasks[i]])

\* three requests in flight at once, none completed, one of them to fault
C11_Witness ==
    /\ pc = "gather"
    /\ Len(tasks) = 3
    /\ \A i \in 1..3 : task_state[tasks[i]] = "inflight"
    /\ completed = <<>>
    /\ backend[tasks[1]] = "Exception"

Contributors(call) == Cardinality(Keys(call.responses) \cap ModelNames)

\* C16 as stated: one contributor gives the summary instruction, more than
\* one the comparison instruction, and no other number of contributors
\* selects either.
C16_ClosingOnlyForContributors ==
    \A k \in 1..Len(ollama_posts) :
        LET n == Contributors(ollama_calls[k])
            closing == ollama_posts[k].closing
        IN  /\ n = 1 => closing = "summarize and critique"
            /\ n > 1 => closing = "compare and contrast"
            /\ n < 1 => closing \notin {"summarize and critique",
                                        "compare and contrast"}

\* C16, amended: the closing instruction depends on the number of
\* contributors alone: exactly one gives the summary instruction and every
\* other number, zero included, gives the comparison instruction.
C16_ClosingByCount ==
    \A k \in 1..Len(ollama_posts) :
        /\ ollama_posts[k].count = Contributors(ollama_calls[k])
        /\ ollama_posts[k].closing =
            IF Contributors(ollama_calls[k]) = 1 THEN "summarize and critique"
            ELSE "compare and contrast"

\* a prompt posted for no contributor at all, closing with the comparison
\* instruction
C16_Witness ==
    /\ Len(ollama_posts) = 1
    /\ Contributors(ollama_calls[1]) = 0
    /\ ollama_posts[1].closing = "compare and contrast"

\* C17: no step of the round changes the configuration or the caller's
\* flags, and the flags stored in the returned record are the ones the
\* providers were selected by: the caller's, or all configured models
\* enabled when the caller gave None.
C17_ConfigAndFlagsUnchanged ==
    [][/\ config' = config
       /\ model_flags' = model_flags
       /\ (pc' = "returned" /\ pc # "returned") =>
            /\ record'.model_flags =
                IF IsNone(model_flags)
                THEN [name \in Keys(config.models) |-> TRUE]
                ELSE model_flags
            /\ \A name \in Keys(config.models) :
                (\E i \in 1..Len(tasks) : tasks[i] = name)
                    <=> FlagGet(record'.model_flags, name, TRUE)]_vars

\* a record returned for flags that name only one of three configured
\* models, after a fault
C17_Witness ==
    /\ pc = "returned"
    /\ Len(config.models) = 3
    /\ DOMAIN model_flags = {"opus"}
    /\ record.model_flags = model_flags
    /\ \E n \in Keys(record.results) : ~IsSuccess(Get(record.results, n))

RoundPastCompare == pc \notin {"start", "gather", "compare"}

\* C19: with the comparison provider enabled and configured call_ollama is
\* called exactly once in the round, whatever the number of enabled primary
\* providers; with none enabled, and both keys configured, the prompt is
\* still posted, naming 0 models and holding no section.
C19_ComparisonOncePerRound ==
    /\ Len(ollama_calls) <= 1
    /\ Len(ollama_posts) <= 1
    /\ (RoundPastCompare /\ ComparisonOn) => Len(ollama_calls) = 1
    /\ (RoundPastCompare /\ ComparisonOn /\ EnabledPrimaries = {}
            /\ config.ollama.keys = {"base_url", "model"})
        => /\ ollama_calls[1].responses = <<>>
           /\ Len(ollama_posts) = 1
           /\ ollama_posts[1].count = 0
           /\ ollama_posts[1].names = <<>>
           /\ ollama_posts[1].sections = <<>>

\* the flags "---+" on three configured models: a prompt posted for none
C19_Witness ==
    /\ pc = "returned"
    /\ Len(config.models) = 3
    /\ model_flags = flags_from_str(<<"-", "-", "-", "+">>)
    /\ Len(ollama_calls) = 1
    /\ Len(ollama_posts) = 1
    /\ ollama_posts[1].count = 0

\* C18: build_html renders every record run_all returns without faulting,
\* with exactly one card per entry of the results map, a failure card for a
\* failure and a success card for a success, in canonical order, and none
\* for a provider without an entry; the providers it treats as active are
\* the ones the dispatcher ran.
C18_OneCardPerEntry ==
    pc = "rendered" =>
        /\ IsNone(html.raised)
        /\ {ActiveModels(record.model_flags)[i] :
                i \in 1..Len(ActiveModels(record.model_flags))}
            = {tasks[i] : i \in 1..Len(tasks)}
        /\ Len(html.cards) = Len(record.results)
        /\ \A i \in 1..Len(html.cards) :
            LET name == CanonicalSeq(Keys(record.results))[i]
            IN  /\ html.cards[i].name = Upper[name]
                /\ html.cards[i].kind =
                    IF IsFailure(Get(record.results, name)) THEN "error"
                    ELSE "success"

-----------------------------------------------------------------------------
(* The hosts: suite.py runs one round for its command line, chat.py reads  *)
(* lines and runs one round per prompt line. A host awaits run_all, so the *)
(* round is one step here: RunAllRecord is the record the steps of Spec    *)
(* arrive at (RunAllRecordAgrees). The clock counts ticks, TicksPerSecond  *)
(* to the second; files maps a path to the round that wrote it last.       *)

\* rounds one chat session runs
MaxRounds == 2

\* ticks the clock runs for
MaxClock == 2

\* ticks in a second: %S of line 372 is the finest field of the slug
TicksPerSecond == 2

(* strings *)

ToLower == [S |-> "s", E |-> "e", T |-> "t", Q |-> "q", H |-> "h", I |-> "i"]

\* s.lower()
lower(s) ==
    [i \in 1..Len(s) |-> IF s[i] \in DOMAIN ToLower THEN ToLower[s[i]] ELSE s[i]]

\* s.startswith(prefix)
startswith(s, prefix) ==
    Len(s) >= Len(prefix) /\ SubSeq(s, 1, Len(prefix)) = prefix

RECURSIVE split(_)
\* s.split(): the runs of non-blank characters between runs of blanks
split(s) ==
    LET t == lstrip(s)
        blanks == {i \in 1..Len(t) : IsSpace(t[i])}
        stop == IF blanks = {} THEN Len(t) + 1
                ELSE CHOOSE i \in blanks : \A j \in blanks : i <= j
    IN  IF t = <<>> THEN <<>>
        ELSE <<SubSeq(t, 1, stop - 1)>> \o split(SubSeq(t, stop, Len(t)))

\* re.match(r'^[+\-]{3,4}$', w) on a word without a newline
re_match_set(w) ==
    /\ Len(w) \in {3, 4}
    /\ \A i \in 1..Len(w) : IsFlagChar(w[i])

\* resolve_prompt(raw): re.sub replaces each @path; a raw without "@" is
\* returned as it is, and no line of the model holds one
resolve_prompt(raw) == raw

(* the literals of chat.py *)

QUIT == <<"/", "q", "u", "i", "t">>

Q_ == <<"/", "q">>

EXIT == <<"/", "e", "x", "i", "t">>

SLASH_CONFIG == <<"/", "c", "o", "n", "f", "i", "g">>

SLASH_RELOAD == <<"/", "r", "e", "l", "o", "a", "d">>

SLASH_SET == <<"/", "s", "e", "t">>

(* the command tests of chat.py lines 102-118, on the stripped line *)

QuitWords == {QUIT, Q_, EXIT}

IsEmptyLine(p) == p = <<>>

IsQuit(p) == lower(p) \in QuitWords

IsShowConfig(p) == lower(p) = SLASH_CONFIG

IsReload(p) == lower(p) = SLASH_RELOAD

IsSet(p) == startswith(lower(p), SLASH_SET)

IsCommand(p) ==
    IsEmptyLine(p) \/ IsQuit(p) \/ IsShowConfig(p) \/ IsReload(p) \/ IsSet(p)

\* the default taken from the flags of the round before, when there was one
DefaultFlags_previous_round(cfg) ==
    IF ~IsNone(model_flags) THEN flags_to_str(model_flags)
    ELSE IF "default_flags" \in DOMAIN cfg THEN cfg.default_flags
    ELSE <<"+", "+", "+", "+">>

\* config.get("default_flags", "++++")
DefaultFlags(cfg) ==
    IF "default_flags" \in DOMAIN cfg THEN cfg.default_flags
    ELSE <<"+", "+", "+", "+">>

\* cfg["default_flags"] = s
SetDefault(cfg, s) ==
    [k \in DOMAIN cfg \cup {"default_flags"} |->
        IF k = "default_flags" THEN s ELSE cfg[k]]

\* the argument stored as it was typed
SetFlagsStr_as_typed(arg) == arg

\* flags_str of line 121
SetFlagsStr(arg) == IF Len(arg) = 4 THEN arg ELSE arg \o <<"+">>

(* the round, in one step *)

\* asyncio.gather's list when every task has run to its end
RoundGathered ==
    [i \in 1..Len(TaskNames) |->
        call_model(TaskNames[i], Get(config.models, TaskNames[i]))]

\* results after the loop of lines 218-223
RoundResults == CollectResults(TaskNames, RoundGathered, <<>>)

\* comparison after lines 225-231
RoundComparison ==
    IF ~ComparisonEnabled THEN None
    ELSE IF ~IsNone(OllamaEarlyFault(RoundResults))
    THEN ComparisonFailure(OllamaEarlyFault(RoundResults))
    ELSE IF IsExcObj(OllamaOutcome) THEN ComparisonFailure(OllamaOutcome)
    ELSE OllamaOutcome

\* the record of lines 233-243
RunAllRecord ==
    [prompt |-> prompt, model_flags |-> EffectiveFlags,
     results |-> RoundResults, comparison |-> RoundComparison]

\* the record the steps of the round return is the record of the round
\* taken in one step
RunAllRecordAgrees ==
    pc \in {"returned", "rendered"} => record = RunAllRecord

(* save_and_open *)

\* the slug of line 372: the time, to the second
Slug(t) == t \div TicksPerSecond

JsonPath(t) == [stem |-> Slug(t), suffix |-> ".json"]

HtmlPath(t) == [stem |-> Slug(t), suffix |-> ".html"]

\* the writes of save_and_open that can fail: mkdir of line 28, write_text
\* of line 376, write_text of line 377
WriteFaults == {"none", "mkdir", "json", "html"}

\* a failed write caught inside save_and_open
SaveFault_swallowed(fault, page) == None

\* the exception that leaves save_and_open, None when it returns: nothing
\* in lines 370-388 catches; build_html is evaluated before the second write
SaveFault(fault, page) ==
    IF fault \in {"mkdir", "json"} THEN ExcObj("OSError", fault)
    ELSE IF IsExcObj(page.raised) THEN page.raised
    ELSE IF fault = "html" THEN ExcObj("OSError", fault)
    ELSE None

\* lines 382-386
Opens ==
    /\ config.open_html
    /\ platform \in {"darwin", "linux"}

\* the message the host prints when the round is through
Completion ==
    IF host = "suite" THEN [msg |-> "Done.", round |-> round_num]
    ELSE [msg |-> "Round complete", round |-> round_num]

(* the inputs of a host *)

\* the lines typed at the chat prompt
ChatLines ==
    {<<" ", " ">>,    \* '  '
     <<"/", "q", "u", "i", "t">>,    \* '/quit'
     <<"/", "c", "o", "n", "f", "i", "g">>,    \* '/config'
     <<"/", "r", "e", "l", "o", "a", "d">>,    \* '/reload'
     <<"/", "s", "e", "t">>,    \* '/set'
     <<"/", "s", "e", "t", " ", "+", "+", "+">>,    \* '/set +++'
     <<"/", "S", "E", "T", " ", "-", "+", "-", "+">>,    \* '/SET -+-+'
     <<"/", "s", "e", "t", " ", "+", "a">>,    \* '/set +a'
     <<"/", "s", "e", "t", " ", "+", "+", "-", " ", "-", "+">>,    \* '/set ++- -+'
     <<"h", "i">>,    \* 'hi'
     <<"h", "i", " ", "-", "-", "-">>}    \* 'hi ---'


\* the command lines of suite.py, joined
SuiteRaws ==
    {<<"h", "i">>,    \* 'hi'
     <<"h", "i", " ", "-", "-", "-">>}    \* 'hi ---'


\* default_flags as config.json may hold it: a full string, and one that is
\* too short and holds another character
StoredDefaults ==
    {<<"-", "+", "-", "+">>,    \* '-+-+'
     <<"+", "a">>}    \* '+a'


\* the configuration a host loads: the three models, no comparison provider
HostModels ==
    [i \in 1..Len(MODEL_ORDER) |-> <<MODEL_ORDER[i], ModelId[MODEL_ORDER[i]]>>]

\* config.json: the three models, no comparison provider, open_html as
\* written (True is also what an absent key stands for), default_flags
\* absent or one of the stored defaults
HostConfigs ==
    {[models |-> HostModels, ollama |-> None, open_html |-> o] :
        o \in BOOLEAN}
    \cup {[models |-> HostModels, ollama |-> None, open_html |-> o,
            default_flags |-> d] : o \in BOOLEAN, d \in StoredDefaults}

HostInit ==
    /\ host \in {"suite", "chat"}
    /\ config \in HostConfigs
    /\ disk = config
    /\ foreign = FALSE
    /\ hpc = "input"
    /\ line \in IF host = "suite"
                THEN {None} \cup {[text |-> l] : l \in SuiteRaws}
                ELSE {None}
    /\ round_num = 0
    /\ clock = 0
    /\ platform \in {"linux", "win32"}
    /\ files = <<>> /\ saves = <<>> /\ opened = <<>> /\ out = <<>>
    /\ escaped = None
    /\ prompt = None /\ model_flags = None
    /\ backend = [n \in ModelNames |-> "ok"]
    /\ ollama_backend = "ok"
    /\ pc = "idle"
    /\ tasks = <<>> /\ task_state = None /\ gathered = None
    /\ completed = <<>> /\ results = <<>> /\ comparison = None
    /\ launched = <<>> /\ ollama_calls = <<>> /\ ollama_posts = <<>>
    /\ record = None /\ html = None
    /\ FlagIdle

(* suite.py *)

\* lines 9-11: no argument
SuiteUsage ==
    /\ host = "suite" /\ hpc = "input"
    /\ IsNone(line)
    /\ escaped' = ExcObj("SystemExit", "1")
    /\ hpc' = "exited"
    /\ UNCHANGED <<config, round_state, flag_vars, host, line, disk, foreign,
                   round_num, clock, platform, files, saves, opened, out>>

\* lines 13-18
SuiteParse ==
    /\ host = "suite" /\ hpc = "input"
    /\ ~IsNone(line)
    /\ LET r == parse_model_flags(line.text, <<"+", "+", "+", "+">>)
       IN  /\ prompt' = resolve_prompt(r.prompt)
           /\ model_flags' = r.flags
    /\ round_num' = round_num + 1
    /\ pc' = "start"
    /\ hpc' = "parsed"
    /\ UNCHANGED <<config, backend, ollama_backend, tasks, task_state,
                   gathered, completed, results, comparison, launched,
                   ollama_calls, ollama_posts, record, html, flag_vars, host,
                   line, disk, foreign, clock, platform, files, saves,
                   opened, out, escaped>>

(* chat.py: one action per branch of the loop body, the line read in it *)

\* every variable a line that runs no round and stores nothing leaves alone
chat_rest == <<round_state, flag_vars, host, disk, foreign, round_num,
               clock, platform, files, saves, opened, out, escaped>>

\* lines 98-100: end of input or an interrupt
ChatEOF ==
    /\ host = "chat" /\ hpc = "input"
    /\ line' = None
    /\ hpc' = "exited"
    /\ UNCHANGED <<config, chat_rest>>

\* lines 102-103
ChatEmpty ==
    /\ host = "chat" /\ hpc = "input"
    /\ \E l \in ChatLines :
        /\ IsEmptyLine(strip(l))
        /\ line' = [text |-> l]
    /\ UNCHANGED <<config, hpc, chat_rest>>

\* lines 105-107
ChatQuit ==
    /\ host = "chat" /\ hpc = "input"
    /\ \E l \in ChatLines :
        /\ ~IsEmptyLine(strip(l)) /\ IsQuit(strip(l))
        /\ line' = [text |-> l]
    /\ hpc' = "exited"
    /\ UNCHANGED <<config, chat_rest>>

\* lines 109-111
ChatShowConfig ==
    /\ host = "chat" /\ hpc = "input"
    /\ \E l \in ChatLines :
        /\ ~IsEmptyLine(strip(l)) /\ ~IsQuit(strip(l))
        /\ IsShowConfig(strip(l))
        /\ line' = [text |-> l]
    /\ UNCHANGED <<config, hpc, chat_rest>>

\* lines 113-116: config = load_config()
ChatReload ==
    /\ host = "chat" /\ hpc = "input"
    /\ \E l \in ChatLines :
        /\ ~IsEmptyLine(strip(l)) /\ ~IsQuit(strip(l))
        /\ ~IsShowConfig(strip(l)) /\ IsReload(strip(l))
        /\ line' = [text |-> l]
    /\ config' = disk
    /\ UNCHANGED <<hpc, chat_rest>>

\* lines 118-124: /set with one argument of 3 or 4 flag characters;
\* save_config writes the whole configuration, and a write that fails ends
\* the host with the default changed in memory only
ChatSet ==
    /\ host = "chat" /\ hpc = "input"
    /\ \E l \in ChatLines, written \in BOOLEAN :
        LET p == strip(l)
            parts == split(p)
        IN  /\ ~IsEmptyLine(p) /\ ~IsQuit(p) /\ ~IsShowConfig(p)
            /\ ~IsReload(p) /\ IsSet(p)
            /\ Len(parts) = 2 /\ re_match_set(parts[2])
            /\ line' = [text |-> l]
            /\ config' = SetDefault(config, SetFlagsStr(parts[2]))
            /\ disk' = IF written THEN config' ELSE disk
            /\ escaped' = IF written THEN escaped
                          ELSE ExcObj("OSError", "config.json")
            /\ hpc' = IF written THEN hpc ELSE "crashed"
    /\ UNCHANGED <<round_state, flag_vars, host, foreign, round_num, clock,
                   platform, files, saves, opened, out>>

\* lines 118-129: /set with anything else prints the usage
ChatSetUsage ==
    /\ host = "chat" /\ hpc = "input"
    /\ \E l \in ChatLines :
        LET p == strip(l)
            parts == split(p)
        IN  /\ ~IsEmptyLine(p) /\ ~IsQuit(p) /\ ~IsShowConfig(p)
            /\ ~IsReload(p) /\ IsSet(p)
            /\ ~(Len(parts) = 2 /\ re_match_set(parts[2]))
            /\ line' = [text |-> l]
    /\ UNCHANGED <<config, hpc, chat_rest>>

\* lines 131-138: any other line is a prompt; the round is numbered
ChatPrompt ==
    /\ host = "chat" /\ hpc = "input"
    /\ round_num < MaxRounds
    /\ \E l \in ChatLines :
        /\ ~IsCommand(strip(l))
        /\ line' = [text |-> l]
        /\ LET r == parse_model_flags(strip(l), DefaultFlags(config))
           IN  /\ prompt' = resolve_prompt(r.prompt)
               /\ model_flags' = r.flags
    /\ round_num' = round_num + 1
    /\ pc' = "start"
    /\ hpc' = "parsed"
    /\ UNCHANGED <<config, backend, ollama_backend, tasks, task_state,
                   gathered, completed, results, comparison, launched,
                   ollama_calls, ollama_posts, record, html, flag_vars, host,
                   disk, foreign, clock, platform, files, saves, opened, out,
                   escaped>>

(* both hosts *)

\* suite.py line 20, chat.py line 140: data = await run_all(...)
HostRunAll ==
    /\ hpc = "parsed"
    /\ tasks' = TaskNames
    /\ launched' = TaskNames
    /\ results' = RoundResults
    /\ comparison' = RoundComparison
    /\ ollama_calls' = IF ComparisonEnabled
                       THEN <<[prompt |-> prompt, responses |-> RoundResults]>>
                       ELSE <<>>
    /\ ollama_posts' = IF ComparisonEnabled
                          /\ IsNone(OllamaEarlyFault(RoundResults))
                       THEN <<ComparisonPrompt(prompt, RoundResults)>>
                       ELSE <<>>
    /\ record' = RunAllRecord
    /\ pc' = "returned"
    /\ hpc' = "ran"
    /\ UNCHANGED <<config, prompt, model_flags, backend, ollama_backend,
                   task_state, gathered, completed, html, flag_vars, host,
                   line, disk, foreign, round_num, clock, platform, files,
                   saves, opened, out, escaped>>

\* suite.py lines 21-22, chat.py lines 141-143: save_and_open(config, data),
\* then the completion message; the exception of a failed write leaves
\* save_and_open and the host, which has no handler around the call
SaveAndOpen ==
    /\ hpc = "ran"
    /\ \E fault \in WriteFaults :
        LET page == build_html(record)
            exc == SaveFault(fault, page)
            json_written == fault \notin {"mkdir", "json"}
            html_written == json_written /\ ~IsExcObj(page.raised)
                            /\ fault # "html"
            files1 == IF json_written
                      THEN Put(files, JsonPath(clock), round_num) ELSE files
        IN  /\ files' = IF html_written
                        THEN Put(files1, HtmlPath(clock), round_num)
                        ELSE files1
            /\ html' = IF json_written THEN page ELSE html
            /\ saves' = Append(saves, [round |-> round_num, fault |-> fault,
                                       json_path |-> JsonPath(clock),
                                       html_path |-> HtmlPath(clock)])
            /\ IF IsNone(exc)
               THEN /\ opened' = IF Opens
                                 THEN Append(opened, [round |-> round_num,
                                                      path |-> HtmlPath(clock)])
                                 ELSE opened
                    /\ out' = Append(out, Completion)
                    /\ hpc' = IF host = "suite" THEN "exited" ELSE "input"
                    /\ UNCHANGED escaped
               ELSE /\ escaped' = exc
                    /\ hpc' = "crashed"
                    /\ UNCHANGED <<opened, out>>
    /\ UNCHANGED <<config, prompt, model_flags, backend, ollama_backend, pc,
                   tasks, task_state, gathered, completed, results,
                   comparison, launched, ollama_calls, ollama_posts, record,
                   flag_vars, host, line, disk, foreign, round_num, clock,
                   platform>>

(* the environment *)

\* time passes
Tick ==
    /\ hpc \in {"input", "parsed", "ran"}
    /\ clock < MaxClock
    /\ clock' = clock + 1
    /\ UNCHANGED <<round_vars, flag_vars, host, hpc, line, disk, foreign,
                   round_num, platform, files, saves, opened, out, escaped>>

\* someone edits default_flags in config.json while the chat runs, once
ExternalEdit ==
    /\ host = "chat" /\ hpc = "input"
    /\ ~foreign
    /\ \E d \in StoredDefaults : disk' = SetDefault(disk, d)
    /\ foreign' = TRUE
    /\ UNCHANGED <<round_vars, flag_vars, host, hpc, line, round_num, clock,
                   platform, files, saves, opened, out, escaped>>

HostNext ==
    \/ SuiteUsage
    \/ SuiteParse
    \/ ChatEOF
    \/ ChatEmpty
    \/ ChatQuit
    \/ ChatShowConfig
    \/ ChatReload
    \/ ChatSet
    \/ ChatSetUsage
    \/ ChatPrompt
    \/ HostRunAll
    \/ SaveAndOpen
    \/ Tick
    \/ ExternalEdit

SpecHost == HostInit /\ [][HostNext]_vars

-----------------------------------------------------------------------------
(* Properties of the hosts.                                                *)

\* C13: a write that fails in save_and_open (the directory, the JSON
\* snapshot or the report) is not swallowed: the exception leaves
\* save_and_open and ends the host, suite.py or chat.py; no completion
\* message is printed for the round and its report is not handed to open.
C13_PersistenceFailurePropagates ==
    \A k \in 1..Len(saves) :
        saves[k].fault # "none" =>
            /\ k = Len(saves)
            /\ hpc = "crashed"
            /\ IsExcObj(escaped) /\ escaped.exc = "OSError"
            /\ \A i \in 1..Len(out) : out[i].round # saves[k].round
            /\ \A i \in 1..Len(opened) : opened[i].round # saves[k].round

\* a chat whose first round was saved, reported and opened and whose second
\* round failed to write its report
C13_Witness ==
    /\ host = "chat"
    /\ Len(saves) = 2
    /\ saves[1].fault = "none" /\ saves[2].fault = "html"
    /\ hpc = "crashed"
    /\ Len(out) = 1 /\ Len(opened) = 1

\* C14: the artifacts of two rounds never collide: the JSON paths and the
\* report paths of any two saved rounds differ, each saved round's files
\* still hold that round, and the two artifacts of a round share their stem.
C14_ArtifactsNeverCollide ==
    /\ \A i \in 1..Len(saves) :
        saves[i].json_path.stem = saves[i].html_path.stem
    /\ \A i, j \in 1..Len(saves) :
        (i # j /\ saves[i].fault = "none" /\ saves[j].fault = "none") =>
            /\ saves[i].json_path # saves[j].json_path
            /\ saves[i].html_path # saves[j].html_path
    /\ \A i \in 1..Len(saves) :
        saves[i].fault = "none" =>
            /\ Get(files, saves[i].json_path) = saves[i].round
            /\ Get(files, saves[i].html_path) = saves[i].round

\* C15: no round is dispatched with an unvalidated flag set: when the
\* default in effect is not a string of 3 or 4 '+'/'-' characters and the
\* prompt line carries no flag token, no provider is invoked.
C15_NoUnvalidatedDispatch ==
    (/\ host = "chat" /\ hpc = "ran"
     /\ ~HasFlagToken(line.text)
     /\ ~IsFlagString(DefaultFlags(config)))
        => launched = <<>>

\* the stored default is a string of 4 '+'/'-' characters
ValidDefault(cfg) ==
    /\ "default_flags" \in DOMAIN cfg
    /\ Len(cfg.default_flags) = 4
    /\ \A i \in 1..Len(cfg.default_flags) : IsFlagChar(cfg.default_flags[i])

\* the line is a /set command, in any case of letters
IsSetCommand(l) == Words(l) # <<>> /\ lower(Words(l)[1]) = SLASH_SET

\* the line is /config or /reload, or holds blanks only
IsOtherCommand(l) ==
    \/ Words(l) = <<>>
    \/ Words(l) \in {<<SLASH_CONFIG>>, <<SLASH_RELOAD>>}

\* C20: in the chat loop a valid stored default stays a string of 4
\* '+'/'-' characters as long as config.json is edited by nobody else; a
\* /set with one argument of 3 flag characters stores it followed by '+',
\* one of 4 stores it as it is, and a /set with no argument, more than one
\* or a malformed one leaves the stored default and the saved configuration
\* as they were; a /set, /config, /reload or blank line dispatches no round
\* and leaves the round counter alone.
C20_SetCommands ==
    [][/\ (ValidDefault(config) /\ ~foreign) => ValidDefault(config')
       /\ (/\ host = "chat" /\ hpc = "input" /\ ~IsNone(line')
           /\ clock' = clock /\ foreign' = foreign) =>
            LET l == line'.text
                w == Words(l)
                valid == Len(w) = 2 /\ IsFlagString(w[2])
            IN  /\ (IsSetCommand(l) /\ valid /\ Len(w[2]) = 3) =>
                    /\ "default_flags" \in DOMAIN config'
                    /\ config'.default_flags = w[2] \o <<"+">>
                /\ (IsSetCommand(l) /\ valid /\ Len(w[2]) = 4) =>
                    /\ "default_flags" \in DOMAIN config'
                    /\ config'.default_flags = w[2]
                /\ (IsSetCommand(l) /\ ~valid) =>
                    /\ config' = config
                    /\ disk' = disk
                /\ (IsSetCommand(l) \/ IsOtherCommand(l)) =>
                    /\ round_num' = round_num
                    /\ hpc' # "parsed"
                    /\ UNCHANGED <<tasks, launched, record, files, saves>>]_vars

\* after a round, "/set +++" has stored "++++" in memory and in config.json
C20_Witness ==
    /\ host = "chat" /\ hpc = "input"
    /\ round_num = 1
    /\ ~IsNone(line)
    /\ line.text = <<"/", "s", "e", "t", " ", "+", "+", "+">>
    /\ "default_flags" \in DOMAIN config
    /\ config.default_flags = <<"+", "+", "+", "+">>
    /\ disk = config

\* the flags a flag string stands for: its i-th character for the i-th name
\* of FLAG_ORDER, and the comparison provider on when it has 3 characters
FlagsOfString(s) ==
    [name \in {FLAG_ORDER[i] : i \in 1..Min(Len(s), Len(FLAG_ORDER))}
            \cup (IF Len(s) = 3 THEN {"ollama"} ELSE {}) |->
        LET i == CHOOSE j \in 1..Len(FLAG_ORDER) : FLAG_ORDER[j] = name
        IN  IF i <= Len(s) THEN s[i] = "+" ELSE TRUE]

\* the default the chat has stored, "++++" when it has stored none
StoredDefault ==
    IF "default_flags" \in DOMAIN config THEN config.default_flags
    ELSE <<"+", "+", "+", "+">>

\* the flags a prompt line asks for: those of its first flag token, or
\* those of the stored default when it carries none
FlagsAskedFor(l) ==
    IF HasFlagToken(l) THEN FlagsOfString(Words(l)[FirstFlagToken(l)])
    ELSE FlagsOfString(StoredDefault)

\* C21: in the chat loop an inline flag token applies to its own round only:
\* the round of a prompt line with a token is given exactly the flags of the
\* token, the round of a line without one is given the stored default (as
\* /set or /reload left it), whatever the round before used; no prompt line
\* and no round changes the stored default or config.json, and the round
\* runs and records the flags it was given.
C21_InlineFlagsOwnRoundOnly ==
    [][/\ (host = "chat" /\ hpc = "input" /\ hpc' = "parsed") =>
            /\ model_flags' = FlagsAskedFor(line'.text)
            /\ config' = config
            /\ disk' = disk
       /\ (host = "chat" /\ hpc = "parsed" /\ hpc' = "ran") =>
            /\ record'.model_flags = model_flags
            /\ \A name \in ModelNames :
                (\E i \in 1..Len(launched') : launched'[i] = name)
                    <=> FlagGet(model_flags, name, TRUE)
            /\ config' = config
            /\ disk' = disk
       /\ (host = "chat" /\ hpc = "ran") => config' = config]_vars

\* the second round of a chat, for a line without a token, about to run with
\* the stored default after a first round that ran with the token "---"
C21_Witness ==
    /\ host = "chat" /\ hpc = "parsed"
    /\ round_num = 2
    /\ line.text = <<"h", "i">>
    /\ ~IsNone(record)
    /\ record.model_flags = FlagsOfString(<<"-", "-", "-">>)
    /\ StoredDefault = <<"-", "+", "-", "+">>
    /\ model_flags = FlagsOfString(<<"-", "+", "-", "+">>)

====
